---- MODULE Spec2Model ----
(***************************************************************************)
(* Model of the interview session of the interview-bot frontend:           *)
(*   - the Interview page (pages/interview.tsx): interviewState, the       *)
(*     transport effect and its four handlers, handleAudioData and         *)
(*     moveToNextQuestion, the skip buttons and the exit button;           *)
(*   - the AudioRecorder and AudioPlayer components;                       *)
(*   - the WebSocketProvider with its two transports: the MockWebSocket    *)
(*     (all of its timers) and the live socket.io channel, whose peer      *)
(*     answers as the API specification in the repository describes.       *)
(*                                                                         *)
(* React closures are modelled as what they are: a handler registered by   *)
(* an effect, and a callback handed to the MediaRecorder, read the         *)
(* interviewState of the render that created them, not the latest one.     *)
(*                                                                         *)
(* Time is counted in units of 500 ms; every setTimeout of the code is a   *)
(* timer with a remaining delay, and time advances only when no timer is   *)
(* due.                                                                    *)
(***************************************************************************)
EXTENDS Integers, Sequences, FiniteSets, TLC

VARIABLES
    mode,             \* "mock" | "live": the result of isMockMode() when the provider mounted
    isConnected,      \* WebSocketProvider state
    connectionError,  \* WebSocketProvider state (TRUE: a message is set)
    mock,             \* the MockWebSocket fields
    mounted,          \* the Interview page is mounted
    listening,        \* the four protocol handlers of the Interview page are subscribed
    handlerClosure,   \* the interviewState seen by the subscribed handlers
    interviewState,   \* Interview page state
    recorder,         \* AudioRecorder state and refs
    pendingStops,     \* MediaRecorder stop events queued, each with its onAudioData closure
    playing,          \* the <audio> element of AudioPlayer is playing
    detached,         \* getUserMedia calls pending, and streams live, of unmounted AudioRecorders
    artifacts,        \* every call of onAudioData so far: the recording and the blob's content
    timers,           \* pending setTimeout callbacks, in creation order
    wire,             \* live transport: events sent by the peer, not yet delivered
    trace,            \* every message emitted and every event delivered, in order
    nInputs,          \* inputs of the environment so far (see MaxInputs)
    storedScore       \* overallScore of sessionStorage.currentInterviewResults, -1 if none

vars == <<mode, isConnected, connectionError, mock, mounted, listening,
          handlerClosure, interviewState, recorder, pendingStops, playing,
          detached, artifacts, timers, wire, trace, nInputs, storedScore>>

----------------------------------------------------------------------------
(* Bounds of the model *)

\* Inputs of the environment in one behaviour: recordings the user starts,
\* disconnect / connect_error events of the live transport, calls of
\* disconnect() on the simulated transport, question audio requested from
\* the simulated transport or pushed by the live peer, messages of a live
\* peer that does not keep to the protocol.
MaxInputs == 2

(* Program constants *)

N == 8                  \* number of questions of a batch
ShortBatch == 2         \* size of a batch that has not N questions
NoId == 0               \* an absent questionId
UnknownId == 9          \* a question identifier that is in no batch ('test-q-1')
MockOverallScore == 78  \* mockInterviewResults.overallScore

(* Delays of the setTimeout calls, in units of 500 ms *)
ConnectDelay == 1
QuestionsDelay == 4
AudioDelay == 3
AnalysisDelay == 6
CompleteDelay == 4
MoveNextDelay == 4
RedirectDelay == 6

----------------------------------------------------------------------------
(* Data *)

mockQuestions == [i \in 1..N |-> [id |-> i, audioBlob |-> FALSE]]

InitialInterviewState ==
    [questions |-> <<>>, currentQuestionIndex |-> 0, answers |-> {},
     isGeneratingQuestions |-> TRUE, isPlayingQuestion |-> FALSE,
     isProcessingAnswer |-> FALSE, isComplete |-> FALSE]

\* What a closure reads of the interviewState of its render.
ClosureOf(st) == [currentQuestionIndex |-> st.currentQuestionIndex,
                  questions |-> st.questions]

NoClosure == [currentQuestionIndex |-> 0, questions |-> <<>>]

\* interviewState.questions[index] of a 0-based index; FALSE stands for undefined.
HasQuestionAt(questions, index) == index + 1 \in DOMAIN questions

Timer(kind, delay, qid, cl) == [kind |-> kind, rem |-> delay, qid |-> qid, cl |-> cl]

\* size is the number of questions of a questions_generated payload, 0 for
\* the other messages.
Msg(dir, type, qid, score) ==
    [dir |-> dir, type |-> type, qid |-> qid, score |-> score, size |-> 0]

\* questions_generated with a payload of n questions: the first n of the batch
Batch(n) == [Msg("in", "questions_generated", NoId, 0) EXCEPT !.size = n]

Questions(n) == SubSeq(mockQuestions, 1, n)

RemoveAt(s, i) == [j \in 1..(Len(s) - 1) |-> IF j < i THEN s[j] ELSE s[j + 1]]

\* number of messages of s whose type is one of types
Count(s, types) == Cardinality({i \in DOMAIN s : s[i].type \in types})

----------------------------------------------------------------------------
(* The Interview page: which of its views is rendered *)

View(conn, err, st, mnt) ==
    IF ~mnt THEN "left"
    ELSE IF err THEN "error"
    ELSE IF ~conn THEN "connecting"
    ELSE IF st.isGeneratingQuestions THEN "generating"
    ELSE IF st.isComplete THEN "complete"
    ELSE "main"

CurrentView == View(isConnected, connectionError, interviewState, mounted)

\* A recorder control that ignores the playback flag.
RecorderDisabledWhileProcessingOnly(st) == st.isProcessingAnswer

\* disabled prop handed to AudioRecorder
RecorderDisabled(st) == st.isProcessingAnswer \/ st.isPlayingQuestion

\* currentQuestion?.audioBlob && <AudioPlayer .../>
HasPlayer(v, st) ==
    /\ v = "main"
    /\ HasQuestionAt(st.questions, st.currentQuestionIndex)
    /\ st.questions[st.currentQuestionIndex + 1].audioBlob

RecorderUnmounted ==
    [hasPermission |-> "null", stream |-> FALSE, isRecording |-> FALSE,
     requesting |-> FALSE, mediaRecorder |-> FALSE, recId |-> 0,
     audioChunks |-> {}, cl |-> NoClosure]

\* The mount effect calls requestMicrophonePermission.
RecorderMounted == [RecorderUnmounted EXCEPT !.requesting = TRUE]

----------------------------------------------------------------------------
(* Interview page: state updates of the handlers (setInterviewState bodies) *)

playQuestionAudio(st, question) ==
    IF question.audioBlob THEN [st EXCEPT !.isPlayingQuestion = TRUE] ELSE st

\* socket.on('questions_generated', ...)
OnQuestionsGenerated(st, questions) ==
    LET st1 == [st EXCEPT !.questions = questions,
                          !.isGeneratingQuestions = FALSE,
                          !.isPlayingQuestion = TRUE]
    IN  IF Len(questions) > 0 THEN playQuestionAudio(st1, questions[1]) ELSE st1

\* socket.on('question_audio', ...)
OnQuestionAudio(st, qid) ==
    [st EXCEPT !.questions =
        [i \in DOMAIN st.questions |->
            IF st.questions[i].id = qid
            THEN [st.questions[i] EXCEPT !.audioBlob = TRUE]
            ELSE st.questions[i]]]

\* An answer_analyzed handler that works with the live transport only.
OnAnswerAnalyzedLiveOnly(st) ==
    IF mode = "live" THEN [st EXCEPT !.isProcessingAnswer = FALSE] ELSE st

\* socket.on('answer_analyzed', ...): the state update; the handler also
\* schedules moveToNextQuestion.
OnAnswerAnalyzed(st) == [st EXCEPT !.isProcessingAnswer = FALSE]

\* socket.on('interview_complete', ...)
OnInterviewComplete(st) == [st EXCEPT !.isComplete = TRUE]

\* handleAudioData: the question it submits, read from the closure's state.
SubmittedQuestion(cl) ==
    IF HasQuestionAt(cl.questions, cl.currentQuestionIndex)
    THEN cl.questions[cl.currentQuestionIndex + 1].id
    ELSE NoId

\* A handleAudioData that files the answer under the next question.
AfterSubmitUnderNext(st, qid) ==
    [st EXCEPT !.answers = @ \cup {qid + 1}, !.isProcessingAnswer = TRUE]

AfterSubmit(st, qid) ==
    [st EXCEPT !.answers = @ \cup {qid}, !.isProcessingAnswer = TRUE]

\* moveToNextQuestion: the branch taken, read from the closure's state.
MoreQuestionsRemain(cl) == cl.currentQuestionIndex + 1 < Len(cl.questions)

\* A moveToNextQuestion that steps backwards.
AfterMoveToPrevious(st, cl) ==
    LET nextIndex == cl.currentQuestionIndex - 1
        st1 == [st EXCEPT !.currentQuestionIndex = nextIndex,
                          !.isPlayingQuestion = TRUE]
    IN  IF HasQuestionAt(cl.questions, nextIndex)
        THEN playQuestionAudio(st1, cl.questions[nextIndex + 1])
        ELSE st1

AfterMoveToNext(st, cl) ==
    LET nextIndex == cl.currentQuestionIndex + 1
        st1 == [st EXCEPT !.currentQuestionIndex = nextIndex,
                          !.isPlayingQuestion = TRUE]
    IN  IF HasQuestionAt(cl.questions, nextIndex)
        THEN playQuestionAudio(st1, cl.questions[nextIndex + 1])
        ELSE st1

----------------------------------------------------------------------------
(* The transports.  A "net" is the record of the variables an emit changes. *)

Net == [timers |-> timers, wire |-> wire, mock |-> mock, trace |-> trace]

MockHasQuestion(m, qid) == \E i \in DOMAIN m.questions : m.questions[i].id = qid

\* MockWebSocket.emit and the handle* method it dispatches to
MockEmit(net, type, qid) ==
    CASE type = "start_interview" ->
            [net EXCEPT !.mock = [@ EXCEPT !.interviewStarted = TRUE,
                                           !.questions = mockQuestions,
                                           !.currentQuestionIndex = 0],
                        !.timers = Append(@, Timer("questions", QuestionsDelay, NoId, NoClosure))]
      [] type = "request_question_audio" ->
            IF MockHasQuestion(net.mock, qid)
            THEN [net EXCEPT !.timers = Append(@, Timer("audio", AudioDelay, qid, NoClosure))]
            ELSE net
      [] type = "submit_answer" ->
            [net EXCEPT !.timers = Append(@, Timer("analysis", AnalysisDelay, qid, NoClosure))]
      [] type = "complete_interview" ->
            [net EXCEPT !.timers = Append(@, Timer("complete", CompleteDelay, NoId, NoClosure))]
      [] OTHER -> net

\* The live peer, answering as the API specification says.
LiveEmit(net, type, qid) ==
    CASE type = "start_interview" ->
            [net EXCEPT !.wire = Append(@, Batch(N))]
      [] type = "submit_answer" ->
            [net EXCEPT !.wire = Append(@, Msg("in", "answer_analyzed", qid, 0))]
      [] type = "complete_interview" ->
            [net EXCEPT !.wire = Append(@, Msg("in", "interview_complete", NoId, MockOverallScore))]
      [] OTHER -> net

\* socket.emit(type, {questionId: qid})
Emit(net, type, qid) ==
    LET logged == [net EXCEPT !.trace = Append(@, Msg("out", type, qid, 0))]
    IN  IF mode = "mock" THEN MockEmit(logged, type, qid)
                         ELSE LiveEmit(logged, type, qid)

LogEvent(net, e) == [net EXCEPT !.trace = Append(@, e)]

Log(net, type, qid, score) ==
    [net EXCEPT !.trace = Append(@, Msg("in", type, qid, score))]

SetNet(net) ==
    /\ timers' = net.timers
    /\ wire' = net.wire
    /\ mock' = net.mock
    /\ trace' = net.trace

----------------------------------------------------------------------------
(* Rendering: what a change of the page state does to the mounted children *)

PlayerNext(oldHas, newHas, st2, play2) ==
    IF ~newHas THEN FALSE
    ELSE IF st2.isPlayingQuestion
            /\ (\/ ~oldHas
                \/ ~interviewState.isPlayingQuestion
                \/ st2.currentQuestionIndex # interviewState.currentQuestionIndex)
         THEN TRUE
    ELSE IF oldHas /\ st2.currentQuestionIndex # interviewState.currentQuestionIndex
         THEN FALSE
    ELSE play2

\* The cleanup of the AudioRecorder mount effect: the tracks of
\* streamRef.current are stopped if a stream has been acquired; a
\* getUserMedia call that is still pending stays pending.
Unmounted(rec) ==
    IF rec.requesting THEN [detached EXCEPT !.requests = @ + 1] ELSE detached

\* The AudioRecorder unmounts with stop events queued: nothing resets the
\* audioChunksRef of the unmounted instance any more, so the blob of each
\* queued event is what the ref holds plus the last chunks pushed by it
\* and by the events queued before it.
Freeze(stops, chunks) ==
    [k \in DOMAIN stops |->
        IF stops[k].frozen THEN stops[k]
        ELSE [stops[k] EXCEPT
                !.frozen = TRUE,
                !.blob = chunks \cup {stops[j].id : j \in {i \in 1..k : ~stops[i].frozen}}]]

Render(conn2, err2, st2, mnt2, rec2, stops2, play2) ==
    LET oldV == CurrentView
        newV == View(conn2, err2, st2, mnt2)
    IN  /\ isConnected' = conn2
        /\ connectionError' = err2
        /\ interviewState' = st2
        /\ mounted' = mnt2
        /\ IF oldV = "main" /\ newV # "main"
           THEN \* AudioRecorder unmounts: its cleanup stops the tracks of the
                \* stream and never calls mediaRecorder.stop(); stop events
                \* already queued by stopRecording stay queued.
                /\ recorder' = RecorderUnmounted
                /\ pendingStops' = Freeze(stops2, rec2.audioChunks)
                /\ detached' = Unmounted(rec2)
           ELSE IF oldV # "main" /\ newV = "main"
           THEN /\ recorder' = RecorderMounted
                /\ pendingStops' = stops2
                /\ detached' = detached
           ELSE /\ recorder' = rec2
                /\ pendingStops' = stops2
                /\ detached' = detached
        /\ playing' = PlayerNext(HasPlayer(oldV, interviewState), HasPlayer(newV, st2), st2, play2)

\* Only interviewState changes; setInterviewState on an unmounted page is a no-op.
SetInterviewState(st2) ==
    Render(isConnected, connectionError, IF mounted THEN st2 ELSE interviewState,
           mounted, recorder, pendingStops, playing)

----------------------------------------------------------------------------
(* Init: the provider has mounted and created the socket, the Interview    *)
(* page has mounted and loaded parsedResume and parsedJobDescription.      *)

Init ==
    /\ mode \in {"mock", "live"}
    /\ isConnected = FALSE
    /\ connectionError = FALSE
    /\ mock = [isConnected |-> FALSE, interviewStarted |-> FALSE,
               questions |-> <<>>, currentQuestionIndex |-> 0]
    /\ mounted = TRUE
    /\ listening = FALSE
    /\ handlerClosure = NoClosure
    /\ interviewState = InitialInterviewState
    /\ recorder = RecorderUnmounted
    /\ pendingStops = <<>>
    /\ playing = FALSE
    /\ detached = [requests |-> 0, streams |-> 0]
    /\ artifacts = <<>>
    /\ timers = IF mode = "mock"
                THEN <<Timer("connect", ConnectDelay, NoId, NoClosure)>>
                ELSE <<>>
    /\ wire = <<>>
    /\ trace = <<>>
    /\ nInputs = 0
    /\ storedScore = -1

----------------------------------------------------------------------------
(* The provider's connect handler followed by the Interview page's         *)
(* transport effect, which re-runs because isConnected changed.            *)

Connected(net) ==
    IF mounted
    THEN /\ SetNet(Emit(net, "start_interview", NoId))
         /\ listening' = TRUE
         /\ handlerClosure' = ClosureOf(interviewState)
         /\ Render(TRUE, FALSE, [interviewState EXCEPT !.isGeneratingQuestions = TRUE],
                   mounted, recorder, pendingStops, playing)
    ELSE /\ SetNet(net)
         /\ Render(TRUE, FALSE, interviewState, mounted, recorder, pendingStops, playing)
         /\ UNCHANGED <<listening, handlerClosure>>

\* The provider's disconnect / connect_error handler followed by the cleanup
\* of the transport effect (the effect itself returns early).
Disconnected(net, err2) ==
    /\ SetNet(net)
    /\ listening' = FALSE
    /\ Render(FALSE, err2, interviewState, mounted, recorder, pendingStops, playing)
    /\ UNCHANGED handlerClosure

\* An event reaches the handler the Interview page subscribed for it.
Handle(net, e) ==
    CASE e.type = "questions_generated" ->
            /\ SetNet(net)
            /\ SetInterviewState(OnQuestionsGenerated(interviewState, Questions(e.size)))
            /\ UNCHANGED storedScore
      [] e.type = "question_audio" ->
            /\ SetNet(net)
            /\ SetInterviewState(OnQuestionAudio(interviewState, e.qid))
            /\ UNCHANGED storedScore
      [] e.type = "answer_analyzed" ->
            /\ SetNet([net EXCEPT !.timers =
                          Append(@, Timer("moveNext", MoveNextDelay, NoId, handlerClosure))])
            /\ SetInterviewState(OnAnswerAnalyzed(interviewState))
            /\ UNCHANGED storedScore
      [] e.type = "interview_complete" ->
            /\ SetNet([net EXCEPT !.timers =
                          Append(@, Timer("redirect", RedirectDelay, NoId, NoClosure))])
            /\ SetInterviewState(OnInterviewComplete(interviewState))
            /\ storedScore' = e.score

\* triggerCallbacks(event, data): every subscribed callback is called.
Trigger(net, e) ==
    IF listening
    THEN Handle(LogEvent(net, e), e)
    ELSE /\ SetNet(net)
         /\ UNCHANGED <<detached, isConnected, connectionError, interviewState, mounted,
                        recorder, pendingStops, playing, storedScore>>

----------------------------------------------------------------------------
(* MockWebSocket: its timers fire *)

Due(i) == i \in DOMAIN timers /\ timers[i].rem = 0

Fired(i) == [Net EXCEPT !.timers = RemoveAt(timers, i)]

\* constructor: setTimeout(..., 500)
MockConnect ==
    \E i \in DOMAIN timers :
        /\ Due(i) /\ timers[i].kind = "connect"
        /\ Connected(Log([Fired(i) EXCEPT !.mock = [@ EXCEPT !.isConnected = TRUE]],
                         "connect", NoId, 0))
        /\ UNCHANGED <<mode, artifacts, nInputs, storedScore>>

\* handleStartInterview: setTimeout(..., 2000)
MockQuestionsGenerated ==
    \E i \in DOMAIN timers :
        /\ Due(i) /\ timers[i].kind = "questions"
        /\ Trigger(Fired(i), Batch(Len(mock.questions)))
        /\ UNCHANGED <<mode, artifacts, listening, handlerClosure, nInputs>>

\* handleRequestQuestionAudio: setTimeout(..., 1500)
MockQuestionAudio ==
    \E i \in DOMAIN timers :
        /\ Due(i) /\ timers[i].kind = "audio"
        /\ Trigger(Fired(i), Msg("in", "question_audio", timers[i].qid, 0))
        /\ UNCHANGED <<mode, artifacts, listening, handlerClosure, nInputs>>

\* handleSubmitAnswer: setTimeout(..., 3000); mockAnalysis has no questionId
\* field.  Its other fields (score 60..99, feedback, star, ...) are read by
\* no handler and are left out of the message.
MockAnswerAnalyzed ==
    \E i \in DOMAIN timers :
        /\ Due(i) /\ timers[i].kind = "analysis"
        /\ IF MockHasQuestion(mock, timers[i].qid)
           THEN Trigger(Fired(i), Msg("in", "answer_analyzed", NoId, 0))
           ELSE /\ SetNet(Fired(i))
                /\ UNCHANGED <<detached, isConnected, connectionError, interviewState, mounted,
                               recorder, pendingStops, playing, storedScore>>
        /\ UNCHANGED <<mode, artifacts, listening, handlerClosure, nInputs>>

\* handleCompleteInterview: setTimeout(..., 2000)
MockInterviewComplete ==
    \E i \in DOMAIN timers :
        /\ Due(i) /\ timers[i].kind = "complete"
        /\ Trigger(Fired(i), Msg("in", "interview_complete", NoId, MockOverallScore))
        /\ UNCHANGED <<mode, artifacts, listening, handlerClosure, nInputs>>

\* disconnect() is called on the MockWebSocket (the cleanup of the provider
\* calls it, the class having no close method): isConnected is cleared and
\* the 'disconnect' callbacks are triggered, whatever the state of the
\* socket; the timers already set are not cleared.
MockDisconnect ==
    /\ mode = "mock"
    /\ nInputs < MaxInputs
    /\ nInputs' = nInputs + 1
    /\ Disconnected(Log([Net EXCEPT !.mock = [@ EXCEPT !.isConnected = FALSE]],
                        "disconnect", NoId, 0),
                    connectionError)
    /\ UNCHANGED <<mode, artifacts, storedScore>>

\* Another user of the socket (the debug page's testRequestAudio) emits
\* request_question_audio.
RequestQuestionAudio ==
    /\ mode = "mock"
    /\ nInputs < MaxInputs
    /\ nInputs' = nInputs + 1
    /\ \E qid \in {1, N, UnknownId} :
          SetNet(Emit(Net, "request_question_audio", qid))
    /\ UNCHANGED <<mode, artifacts, detached, isConnected, connectionError, mounted, listening,
                   handlerClosure, interviewState, recorder, pendingStops,
                   playing, storedScore>>

----------------------------------------------------------------------------
(* The live transport *)

LiveConnect ==
    /\ mode = "live"
    /\ ~isConnected
    /\ Connected(Log(Net, "connect", NoId, 0))
    /\ UNCHANGED <<mode, artifacts, nInputs, storedScore>>

\* The channel drops; what the peer had sent and was not delivered is lost.
LiveDisconnect ==
    /\ mode = "live"
    /\ isConnected
    /\ nInputs < MaxInputs
    /\ nInputs' = nInputs + 1
    /\ Disconnected(Log([Net EXCEPT !.wire = <<>>], "disconnect", NoId, 0), connectionError)
    /\ UNCHANGED <<mode, artifacts, storedScore>>

LiveConnectError ==
    /\ mode = "live"
    /\ ~isConnected
    /\ nInputs < MaxInputs
    /\ nInputs' = nInputs + 1
    /\ Disconnected(Log(Net, "connect_error", NoId, 0), TRUE)
    /\ UNCHANGED <<mode, artifacts, storedScore>>

LiveDeliver ==
    /\ mode = "live"
    /\ isConnected
    /\ wire # <<>>
    /\ Trigger([Net EXCEPT !.wire = Tail(wire)], Head(wire))
    /\ UNCHANGED <<mode, artifacts, listening, handlerClosure, nInputs>>

\* A peer that does not keep to the protocol answers start_interview with a
\* batch that has not N questions.
LiveWrongBatch ==
    /\ mode = "live"
    /\ isConnected
    /\ \E k \in DOMAIN wire : wire[k] = Batch(N)
    /\ nInputs < MaxInputs
    /\ nInputs' = nInputs + 1
    /\ wire' = [k \in DOMAIN wire |->
                    IF wire[k] = Batch(N) THEN Batch(ShortBatch) ELSE wire[k]]
    /\ UNCHANGED <<mode, artifacts, detached, isConnected, connectionError, mock, mounted,
                   listening, handlerClosure, interviewState, recorder, pendingStops,
                   playing, timers, trace, storedScore>>

\* A peer that does not keep to the protocol sends interview_complete
\* although no complete_interview has been sent.
LiveUnsolicitedComplete ==
    /\ mode = "live"
    /\ isConnected
    /\ listening
    /\ Count(trace, {"complete_interview"}) = 0
    /\ \A k \in DOMAIN wire : wire[k].type # "interview_complete"
    /\ nInputs < MaxInputs
    /\ nInputs' = nInputs + 1
    /\ wire' = Append(wire, Msg("in", "interview_complete", NoId, MockOverallScore))
    /\ UNCHANGED <<mode, artifacts, detached, isConnected, connectionError, mock, mounted,
                   listening, handlerClosure, interviewState, recorder, pendingStops,
                   playing, timers, trace, storedScore>>

\* The peer sends the TTS audio of a question after the batch.
LiveQuestionAudio ==
    /\ mode = "live"
    /\ isConnected
    /\ \E k \in DOMAIN trace : trace[k].type = "questions_generated"
    /\ nInputs < MaxInputs
    /\ nInputs' = nInputs + 1
    /\ \E qid \in 1..2 :
          wire' = Append(wire, Msg("in", "question_audio", qid, 0))
    /\ UNCHANGED <<mode, artifacts, detached, isConnected, connectionError, mock, mounted, listening,
                   handlerClosure, interviewState, recorder, pendingStops,
                   playing, timers, trace, storedScore>>

----------------------------------------------------------------------------
(* Interview page: its own timers and the user's buttons *)

\* setTimeout(() => moveToNextQuestion(), 2000) of the answer_analyzed handler
MoveToNextQuestion ==
    \E i \in DOMAIN timers :
        /\ Due(i) /\ timers[i].kind = "moveNext"
        /\ IF MoreQuestionsRemain(timers[i].cl)
           THEN /\ SetNet(Fired(i))
                /\ SetInterviewState(AfterMoveToNext(interviewState, timers[i].cl))
           ELSE /\ SetNet(Emit(Fired(i), "complete_interview", NoId))
                /\ UNCHANGED <<detached, isConnected, connectionError, interviewState, mounted,
                               recorder, pendingStops, playing>>
        /\ UNCHANGED <<mode, artifacts, listening, handlerClosure, nInputs, storedScore>>

\* The page unmounts: cleanup of the transport effect, children unmount.
LeavePage(net) ==
    /\ SetNet(net)
    /\ listening' = FALSE
    /\ Render(isConnected, connectionError, interviewState, FALSE,
              recorder, pendingStops, playing)
    /\ UNCHANGED <<mode, artifacts, handlerClosure, nInputs, storedScore>>

\* setTimeout(() => router.push('/results'), 3000) of the interview_complete handler
Redirect ==
    \E i \in DOMAIN timers :
        /\ Due(i) /\ timers[i].kind = "redirect"
        /\ LeavePage(Fired(i))

\* "Exit Interview" of the main view, "Return to Home" of the error view
ExitInterview ==
    /\ CurrentView \in {"main", "error"}
    /\ LeavePage(Net)

\* Either skip button: shown while isPlayingQuestion
SkipAudio ==
    /\ CurrentView = "main"
    /\ interviewState.isPlayingQuestion
    /\ SetInterviewState([interviewState EXCEPT !.isPlayingQuestion = FALSE])
    /\ UNCHANGED <<mode, artifacts, mock, listening, handlerClosure, timers, wire, trace,
                   nInputs, storedScore>>

\* AudioPlayer: the 'ended' event calls onPlaybackComplete
PlaybackEnded ==
    /\ playing
    /\ Render(isConnected, connectionError,
              [interviewState EXCEPT !.isPlayingQuestion = FALSE],
              mounted, recorder, pendingStops, FALSE)
    /\ UNCHANGED <<mode, artifacts, mock, listening, handlerClosure, timers, wire, trace,
                   nInputs, storedScore>>

----------------------------------------------------------------------------
(* AudioRecorder *)

RecorderOnly(rec2, stops2) ==
    /\ recorder' = rec2
    /\ pendingStops' = stops2
    /\ UNCHANGED <<mode, artifacts, detached, isConnected, connectionError, mock, mounted, listening,
                   handlerClosure, interviewState, playing, timers, wire, trace,
                   storedScore>>

\* requestMicrophonePermission: getUserMedia resolves
PermissionGranted ==
    /\ recorder.requesting
    /\ RecorderOnly([recorder EXCEPT !.requesting = FALSE,
                                     !.hasPermission = "granted",
                                     !.stream = TRUE], pendingStops)
    /\ UNCHANGED nInputs

\* requestMicrophonePermission of an unmounted AudioRecorder: getUserMedia
\* resolves, streamRef.current = stream; no cleanup will run again.
DetachedGranted ==
    /\ detached.requests > 0
    /\ detached' = [requests |-> detached.requests - 1,
                    streams |-> detached.streams + 1]
    /\ UNCHANGED <<mode, artifacts, isConnected, connectionError, mock, mounted,
                   listening, handlerClosure, interviewState, recorder,
                   pendingStops, playing, timers, wire, trace, nInputs, storedScore>>

\* requestMicrophonePermission of an unmounted AudioRecorder: getUserMedia rejects
DetachedDenied ==
    /\ detached.requests > 0
    /\ detached' = [detached EXCEPT !.requests = @ - 1]
    /\ UNCHANGED <<mode, artifacts, isConnected, connectionError, mock, mounted,
                   listening, handlerClosure, interviewState, recorder,
                   pendingStops, playing, timers, wire, trace, nInputs, storedScore>>

\* A denial handled as a fatal error of the session.
PermissionDeniedFatal ==
    /\ recorder.requesting
    /\ Render(isConnected, TRUE, interviewState, mounted,
              [recorder EXCEPT !.requesting = FALSE, !.hasPermission = "denied"],
              pendingStops, playing)
    /\ UNCHANGED <<mode, artifacts, mock, listening, handlerClosure, timers, wire, trace,
                   nInputs, storedScore>>

\* requestMicrophonePermission: getUserMedia rejects
PermissionDenied ==
    /\ recorder.requesting
    /\ RecorderOnly([recorder EXCEPT !.requesting = FALSE,
                                     !.hasPermission = "denied"], pendingStops)
    /\ UNCHANGED nInputs

\* "Grant Permission" of the permission-denied view
RetryPermission ==
    /\ CurrentView = "main"
    /\ recorder.hasPermission = "denied"
    /\ ~recorder.requesting
    /\ RecorderOnly([recorder EXCEPT !.requesting = TRUE], pendingStops)
    /\ UNCHANGED nInputs

\* The record button is rendered once permission is granted, and carries
\* disabled={disabled}.
ButtonEnabled ==
    /\ CurrentView = "main"
    /\ recorder.hasPermission = "granted"
    /\ ~RecorderDisabled(interviewState)

\* startRecording: if (!streamRef.current || disabled) return
StartRecording ==
    /\ ButtonEnabled
    /\ ~recorder.isRecording
    /\ recorder.stream /\ ~RecorderDisabled(interviewState)
    /\ nInputs < MaxInputs
    /\ nInputs' = nInputs + 1
    /\ RecorderOnly([recorder EXCEPT !.isRecording = TRUE,
                                     !.mediaRecorder = TRUE,
                                     !.recId = nInputs + 1,
                                     !.audioChunks = {},
                                     !.cl = ClosureOf(interviewState)], pendingStops)

\* mediaRecorder.start(1000): a dataavailable event of the running recorder,
\* 1000 ms after the start; ondataavailable pushes the chunk to
\* audioChunksRef.current.  A task queued by stop() runs long before that.
DataAvailable ==
    /\ recorder.isRecording
    /\ pendingStops = <<>>
    /\ recorder.recId \notin recorder.audioChunks
    /\ RecorderOnly([recorder EXCEPT !.audioChunks = @ \cup {recorder.recId}],
                    pendingStops)
    /\ UNCHANGED nInputs

\* mediaRecorder.stop(): the task it queues fires dataavailable and then
\* stop on the recorder.  The entry holds the recording (id), the
\* onAudioData closure of its onstop handler (cl) and, once the component
\* has unmounted (frozen), the content its blob will have.
StopEvent(rec) == [cl |-> rec.cl, id |-> rec.recId, frozen |-> FALSE, blob |-> {}]

\* A stopRecording that does not test isRecording.
stopRecordingWhenever(rec, stops) ==
    IF rec.mediaRecorder
    THEN [rec |-> [rec EXCEPT !.isRecording = FALSE], stops |-> Append(stops, StopEvent(rec))]
    ELSE [rec |-> rec, stops |-> stops]

\* stopRecording: if (mediaRecorderRef.current && isRecording) the recorder
\* is stopped, which queues its stop event; otherwise nothing happens.
stopRecording(rec, stops) ==
    IF rec.mediaRecorder /\ rec.isRecording
    THEN [rec |-> [rec EXCEPT !.isRecording = FALSE], stops |-> Append(stops, StopEvent(rec))]
    ELSE [rec |-> rec, stops |-> stops]

\* The record button while recording: onClick = stopRecording
StopRecording ==
    /\ ButtonEnabled
    /\ recorder.isRecording
    /\ LET r == stopRecording(recorder, pendingStops)
       IN  RecorderOnly(r.rec, r.stops)
    /\ UNCHANGED nInputs

\* stopRecording is called while the mounted recorder is not recording.
StopRecordingIdle ==
    /\ CurrentView = "main"
    /\ ~recorder.isRecording
    /\ LET r == stopRecording(recorder, pendingStops)
       IN  RecorderOnly(r.rec, r.stops)
    /\ UNCHANGED nInputs

\* The task queued by mediaRecorder.stop() runs: ondataavailable pushes the
\* last chunk of the stopped recording to audioChunksRef.current, then
\* onstop builds the blob from audioChunksRef.current and calls
\* onAudioData, which is the handleAudioData of the render of startRecording.
HandleAudioData ==
    /\ pendingStops # <<>>
    /\ LET e == Head(pendingStops)
           qid == SubmittedQuestion(e.cl)
           chunks == IF e.frozen THEN e.blob ELSE recorder.audioChunks \cup {e.id}
           rec2 == IF e.frozen THEN recorder
                   ELSE [recorder EXCEPT !.audioChunks = chunks]
       IN  /\ artifacts' = Append(artifacts, [id |-> e.id, chunks |-> chunks])
           /\ IF qid = NoId
              THEN /\ pendingStops' = Tail(pendingStops)
                   /\ recorder' = rec2
                   /\ UNCHANGED <<detached, isConnected, connectionError, mock, mounted,
                                  interviewState, playing, timers, wire, trace>>
              ELSE /\ SetNet(Emit(Net, "submit_answer", qid))
                   /\ Render(isConnected, connectionError,
                             IF mounted THEN AfterSubmit(interviewState, qid)
                                        ELSE interviewState,
                             mounted, rec2, Tail(pendingStops), playing)
    /\ UNCHANGED <<mode, listening, handlerClosure, nInputs, storedScore>>

----------------------------------------------------------------------------
(* Time *)

Tick ==
    /\ timers # <<>>
    /\ \A i \in DOMAIN timers : timers[i].rem > 0
    /\ timers' = [i \in DOMAIN timers |-> [timers[i] EXCEPT !.rem = @ - 1]]
    /\ UNCHANGED <<mode, artifacts, detached, isConnected, connectionError, mock, mounted, listening,
                   handlerClosure, interviewState, recorder, pendingStops,
                   playing, wire, trace, nInputs, storedScore>>

Next ==
    \/ MockConnect
    \/ MockQuestionsGenerated
    \/ MockQuestionAudio
    \/ MockAnswerAnalyzed
    \/ MockInterviewComplete
    \/ MockDisconnect
    \/ RequestQuestionAudio
    \/ LiveConnect
    \/ LiveDisconnect
    \/ LiveConnectError
    \/ LiveDeliver
    \/ LiveWrongBatch
    \/ LiveUnsolicitedComplete
    \/ LiveQuestionAudio
    \/ MoveToNextQuestion
    \/ Redirect
    \/ ExitInterview
    \/ SkipAudio
    \/ PlaybackEnded
    \/ PermissionGranted
    \/ PermissionDenied
    \/ RetryPermission
    \/ DetachedGranted
    \/ DetachedDenied
    \/ StartRecording
    \/ StopRecording
    \/ StopRecordingIdle
    \/ DataAvailable
    \/ HandleAudioData
    \/ Tick

Spec == Init /\ [][Next]_vars

----------------------------------------------------------------------------
(* A session that has been resumed: with the live transport the questions  *)
(* were delivered, the microphone was granted, the channel dropped and the *)
(* socket has connected again, so that the transport effect has run a      *)
(* second time, with the questions loaded.  n is the number of inputs      *)
(* counted so far.                                                         *)

Resumed(n) ==
    /\ mode = "live"
    /\ isConnected = TRUE
    /\ connectionError = FALSE
    /\ mock = [isConnected |-> FALSE, interviewStarted |-> FALSE,
               questions |-> <<>>, currentQuestionIndex |-> 0]
    /\ mounted = TRUE
    /\ listening = TRUE
    /\ handlerClosure = [currentQuestionIndex |-> 0, questions |-> mockQuestions]
    /\ interviewState = [InitialInterviewState EXCEPT !.questions = mockQuestions,
                                                      !.isPlayingQuestion = TRUE]
    /\ recorder = RecorderUnmounted
    /\ pendingStops = <<>>
    /\ playing = FALSE
    /\ detached = [requests |-> 0, streams |-> 0]
    /\ artifacts = <<>>
    /\ timers = <<>>
    /\ wire = <<Batch(N)>>
    /\ trace = <<Msg("in", "connect", NoId, 0),
                 Msg("out", "start_interview", NoId, 0),
                 Batch(N),
                 Msg("in", "disconnect", NoId, 0),
                 Msg("in", "connect", NoId, 0),
                 Msg("out", "start_interview", NoId, 0)>>
    /\ nInputs = n
    /\ storedScore = -1

\* TLC refutes this under Spec: the resumed session is a state of Spec,
\* reached with one input (the drop).
ResumedNotReached == ~Resumed(1)

InitResumed ==
    \/ Init /\ mode = "mock"
    \/ Resumed(0)

SpecResumed == InitResumed /\ [][Next]_vars

----------------------------------------------------------------------------
(* Reading the trace *)

IsOut(m, type) == m.dir = "out" /\ m.type = type
IsIn(m, type) == m.dir = "in" /\ m.type = type

\* positions of the trace before position k that hold a message of the type
Before(k, dir, type) ==
    {i \in DOMAIN trace : i < k /\ trace[i].dir = dir /\ trace[i].type = type}

NumSubmitted == Count(trace, {"submit_answer"})
NumAnalyzed == Count(trace, {"answer_analyzed"})

\* An answer is outstanding just before position k of the trace.
OutstandingAt(k) ==
    Cardinality(Before(k, "out", "submit_answer"))
        > Cardinality(Before(k, "in", "answer_analyzed"))

----------------------------------------------------------------------------
(* Claims *)

\* C1: at most one submit_answer is sent per question identifier; a second
\* submit_answer for the same identifier is never emitted before the session
\* is Completed (before interview_complete has been received).
C1_OneSubmitPerQuestion ==
    \A i, j \in DOMAIN trace :
        (/\ i < j
         /\ IsOut(trace[i], "submit_answer")
         /\ IsOut(trace[j], "submit_answer")
         /\ trace[i].qid = trace[j].qid)
        => Before(j, "in", "interview_complete") # {}

\* C2: the question identifiers of the submit_answer messages are strictly
\* increasing in batch order, without duplicates.
C2_SubmissionsStrictlyIncreasing ==
    \A i, j \in DOMAIN trace :
        (/\ i < j
         /\ IsOut(trace[i], "submit_answer")
         /\ IsOut(trace[j], "submit_answer"))
        => trace[i].qid < trace[j].qid

\* C3: recording never starts while isPlayingQuestion is true: a step that
\* turns isRecording on is taken from a state where isPlayingQuestion is false.
C3_NoRecordingStartWhilePlaying ==
    [][(~recorder.isRecording /\ recorder'.isRecording)
          => ~interviewState.isPlayingQuestion]_vars

\* C3 witness: the record button is shown with the microphone granted while
\* the question is playing, and is disabled.
C3_Witness ==
    /\ CurrentView = "main"
    /\ recorder.hasPermission = "granted"
    /\ recorder.stream
    /\ interviewState.isPlayingQuestion
    /\ ~recorder.isRecording
    /\ nInputs < MaxInputs

\* C4: complete_interview is sent only after each of the N questions of the
\* batch has been submitted and N answer_analyzed events have been received.
C4_CompleteOnlyAfterAllAnswered ==
    \A k \in DOMAIN trace :
        IsOut(trace[k], "complete_interview")
        => /\ \A q \in 1..N :
                \E i \in Before(k, "out", "submit_answer") : trace[i].qid = q
           /\ Cardinality(Before(k, "in", "answer_analyzed")) >= N

\* C5: with the simulated transport, a session that is Completed has gone
\* through exactly N submit/analyze cycles and holds an overallScore in 0..100.
C5_CompletedAfterAllCycles ==
    (mode = "mock" /\ interviewState.isComplete)
        => /\ NumSubmitted = N
           /\ NumAnalyzed = N
           /\ storedScore \in 0..100

\* C6: after a disconnect delivered while an answer was outstanding, the page
\* stays out of the interview flow and no submit_answer is sent any more.
C6_NoSubmitAfterDisconnect ==
    \A k \in DOMAIN trace :
        (IsIn(trace[k], "disconnect") /\ OutstandingAt(k))
        => /\ CurrentView \notin {"generating", "main", "complete"}
           /\ \A j \in DOMAIN trace : j > k => ~IsOut(trace[j], "submit_answer")

\* C7: start_interview is sent at most once per session instance.
C7_StartInterviewAtMostOnce ==
    Count(trace, {"start_interview"}) <= 1

\* C8: a press of the skip button while isPlayingQuestion is true turns
\* isPlayingQuestion off and enables recording, sends no message and leaves
\* questions, currentQuestionIndex and answers as they were.
C8_SkipEnablesRecording ==
    [][SkipAudio
          => /\ ~interviewState'.isPlayingQuestion
             /\ ~RecorderDisabled(interviewState')
             /\ trace' = trace
             /\ interviewState'.questions = interviewState.questions
             /\ interviewState'.currentQuestionIndex = interviewState.currentQuestionIndex
             /\ interviewState'.answers = interviewState.answers]_vars

\* C9: the simulated transport delivers no question_audio event before it
\* has delivered the questions_generated batch.
C9_MockAudioAfterQuestions ==
    mode = "mock"
        => \A k \in DOMAIN trace :
              IsIn(trace[k], "question_audio")
              => Before(k, "in", "questions_generated") # {}

\* C10: in the simulated transport every delivered answer_analyzed carries
\* the question identifier of a submit_answer sent before it, and there are
\* never more analyses for an identifier than submissions of it.
C10_MockAnalysisKeyedBySubmission ==
    mode = "mock"
        => \A k \in DOMAIN trace :
              IsIn(trace[k], "answer_analyzed")
              => /\ trace[k].qid # NoId
                 /\ Cardinality({i \in Before(k + 1, "in", "answer_analyzed") :
                                    trace[i].qid = trace[k].qid})
                      <= Cardinality({i \in Before(k, "out", "submit_answer") :
                                    trace[i].qid = trace[k].qid})

----------------------------------------------------------------------------
(* Reading a step: what it delivers to the page and what the page does *)

\* The identifier of the submission the page is waiting on: the questionId
\* of the last submit_answer while isProcessingAnswer is set, NoId if none.
LastSubmitted ==
    LET S == {i \in DOMAIN trace : IsOut(trace[i], "submit_answer")}
    IN  IF S = {} THEN NoId
        ELSE trace[CHOOSE i \in S : \A j \in S : j <= i].qid

OutstandingId == IF interviewState.isProcessingAnswer THEN LastSubmitted ELSE NoId

\* The step delivers an event of the type to the page's handler.
Delivers(type) ==
    /\ Len(trace') = Len(trace) + 1
    /\ IsIn(trace'[Len(trace')], type)

PendingMoves(t) == Cardinality({i \in DOMAIN t : t[i].kind = "moveNext"})

\* The reaction of the Interview page to a delivered event, written
\* without reference to the transport that delivers it.
PageReaction(st, e) ==
    CASE e.type = "questions_generated" ->
            [st EXCEPT !.questions = SubSeq(mockQuestions, 1, e.size),
                       !.isGeneratingQuestions = FALSE,
                       !.isPlayingQuestion = TRUE]
      [] e.type = "question_audio" ->
            [st EXCEPT !.questions =
                [i \in DOMAIN st.questions |->
                    [id |-> st.questions[i].id,
                     audioBlob |-> st.questions[i].audioBlob
                                     \/ st.questions[i].id = e.qid]]]
      [] e.type = "answer_analyzed" -> [st EXCEPT !.isProcessingAnswer = FALSE]
      [] e.type = "interview_complete" -> [st EXCEPT !.isComplete = TRUE]
      [] OTHER -> st

ProtocolEvents ==
    {"questions_generated", "question_audio", "answer_analyzed", "interview_complete"}

----------------------------------------------------------------------------
(* Claims, continued *)

C12_IdleStopIsNoOp ==
    [][StopRecordingIdle
          => /\ recorder' = recorder
             /\ pendingStops' = pendingStops
             /\ interviewState' = interviewState
             /\ trace' = trace]_vars

\* C12 witness: the recorder is mounted and idle after a recording was
\* made and handed over, so that a MediaRecorder exists when stopRecording
\* is called again.
C12_Witness ==
    /\ CurrentView = "main"
    /\ recorder.mediaRecorder
    /\ ~recorder.isRecording
    /\ pendingStops = <<>>
    /\ ENABLED StopRecordingIdle

\* C13: closing the transport when it is already closed changes nothing: a
\* second disconnect() on the simulated socket delivers no event to the
\* subscribed handlers and leaves the connection state as it was.
C13_SecondDisconnectIsNoOp ==
    [][(/\ MockDisconnect
        /\ ~mock.isConnected
        /\ Count(trace, {"disconnect"}) > 0)
          => /\ trace' = trace
             /\ mock' = mock
             /\ isConnected' = isConnected]_vars

\* C14: each accepted stop yields exactly one audio artifact: onAudioData
\* is called once per recording, with a blob that holds the audio of that
\* recording and of no other, and a recorder that has been stopped is not
\* recording (it is ready for a new start).
C14_OneArtifactPerRecording ==
    /\ \A i, j \in DOMAIN artifacts :
            i # j => artifacts[i].id # artifacts[j].id
    /\ \A i \in DOMAIN artifacts :
            artifacts[i].chunks = {artifacts[i].id}
    /\ \A k \in DOMAIN pendingStops :
            ~pendingStops[k].frozen
                => ~(recorder.isRecording /\ recorder.recId = pendingStops[k].id)

\* C15: the microphone stream is released on every exit path: no stream
\* acquired by an AudioRecorder that has unmounted stays live, also when
\* the unmount came while getUserMedia was pending, and no stream is held
\* while the recorder is not mounted.
C15_StreamReleasedOnEveryExit ==
    /\ detached.streams = 0
    /\ CurrentView # "main" => ~recorder.stream

\* C16: a denied microphone permission is recoverable in place: the step in
\* which requestMicrophonePermission fails leaves the session state
\* (questions, currentQuestionIndex, answers, isPlayingQuestion,
\* isProcessingAnswer) as it was and sends no message; while the
\* permission is denied the user can ask for it again; and a grant that
\* follows a denial leaves the recorder with a stream, ready to record.
C16_DeniedPermissionRecoverable ==
    /\ [][PermissionDenied
             => /\ interviewState' = interviewState
                /\ trace' = trace
                /\ recorder'.hasPermission = "denied"
                /\ CurrentView' = "main"]_vars
    /\ []((recorder.hasPermission = "denied" /\ ~recorder.requesting)
             => ENABLED RetryPermission)
    /\ [][(recorder.hasPermission = "denied" /\ PermissionGranted)
             => /\ recorder'.hasPermission = "granted"
                /\ recorder'.stream
                /\ interviewState' = interviewState]_vars

\* C16 witness: with the questions loaded, the permission was denied and
\* has been asked for again through the "Grant Permission" button.
C16_Witness ==
    /\ CurrentView = "main"
    /\ Len(interviewState.questions) = N
    /\ recorder.hasPermission = "denied"
    /\ recorder.requesting

\* C17: a skip stops the playback of the question audio: after a press of
\* the skip button the audio element is not playing, so that no completion
\* signal (onPlaybackComplete) can follow for the skipped audio.
C17_SkipStopsPlayback ==
    [][SkipAudio => ~playing']_vars

\* C18: once the page has been left (Exit Interview, Return to Home or the
\* redirect to the results) no resource of the session is live: nothing is
\* recording, the microphone stream is released, the audio element is not
\* playing and the transport channel is closed.
C18_NoLiveResourceAfterExit ==
    CurrentView = "left"
        => /\ ~recorder.isRecording
           /\ ~recorder.stream
           /\ detached.streams = 0
           /\ ~playing
           /\ ~isConnected

\* C19: when moveToNextQuestion runs for the analysed answer of the question
\* at index i, the index becomes exactly i + 1 and nothing is sent if a
\* question remains after i; only when i is the last index is
\* complete_interview sent, and then the index stays as it is.
C19_AdvanceByOneOrComplete ==
    [][(MoveToNextQuestion /\ mounted)
          => IF interviewState.currentQuestionIndex + 1 < Len(interviewState.questions)
             THEN /\ interviewState'.currentQuestionIndex
                        = interviewState.currentQuestionIndex + 1
                  /\ trace' = trace
             ELSE /\ interviewState'.currentQuestionIndex
                        = interviewState.currentQuestionIndex
                  /\ trace' = Append(trace, Msg("out", "complete_interview", NoId, 0))]_vars

\* C20: an answer_analyzed event whose identifier is not the one of the
\* outstanding submission, or that arrives when no submission is
\* outstanding, is ignored: isProcessingAnswer and currentQuestionIndex stay
\* as they were and no moveToNextQuestion (hence no complete_interview) is
\* scheduled.
C20_MismatchedAnalysisIgnored ==
    [][(/\ Delivers("answer_analyzed")
        /\ \/ OutstandingId = NoId
           \/ trace'[Len(trace')].qid # OutstandingId)
          => /\ interviewState' = interviewState
             /\ PendingMoves(timers') = PendingMoves(timers)]_vars

\* The identifier of the question the page shows, NoId if there is none.
CurrentQuestionId == SubmittedQuestion(ClosureOf(interviewState))

SubmittedIds == {trace[k].qid : k \in {i \in DOMAIN trace : IsOut(trace[i], "submit_answer")}}

\* C21: from the moment submit_answer has been sent for a question until the
\* session has moved on to the next question, recording cannot be started:
\* no step turns isRecording on while the current question is one that has
\* been submitted.
C21_NoRecordingAfterSubmit ==
    [][(~recorder.isRecording /\ recorder'.isRecording)
          => CurrentQuestionId \notin SubmittedIds]_vars

C23_AnswerOnlyAfterAdvance ==
    \A q \in interviewState.answers :
        \/ interviewState.currentQuestionIndex > q - 1
        \/ interviewState.isComplete

\* C23, as the code has it: the answers map holds an entry for a question
\* only if submit_answer has been sent for that question and the question
\* is at or before the current index; the entry is made when the answer is
\* submitted, before the session advances.
C23_AnswerOnlyAfterSubmit ==
    \A q \in interviewState.answers :
        /\ q \in SubmittedIds
        /\ interviewState.currentQuestionIndex >= q - 1

\* C23 witness: the answer of the current question is in the map while the
\* session has not advanced past it.
C23_Witness ==
    /\ CurrentQuestionId # NoId
    /\ CurrentQuestionId \in interviewState.answers
    /\ ~interviewState.isComplete

\* C24: a questions_generated batch whose size is not N is fatal: once such
\* a batch has been delivered the page shows the error view (or has been
\* left), so that no question is presented and no recording is possible,
\* and no submit_answer is sent after it.
C24_WrongBatchIsFatal ==
    \A k \in DOMAIN trace :
        (IsIn(trace[k], "questions_generated") /\ trace[k].size # N)
            => /\ CurrentView \in {"error", "left"}
               /\ \A j \in DOMAIN trace : j > k => ~IsOut(trace[j], "submit_answer")

\* C25: a question presented without an audio artifact does not block the
\* recorder: while the main view is shown, isPlayingQuestion is true only if
\* the current question has audio.
C25_PlayingOnlyWithAudio ==
    (CurrentView = "main" /\ interviewState.isPlayingQuestion)
        => HasPlayer(CurrentView, interviewState)

\* C26: the session is Completed only after the page has sent
\* complete_interview and then received interview_complete.
C26_CompletedOnlyAfterRequest ==
    interviewState.isComplete
        => \E k, j \in DOMAIN trace :
              /\ k < j
              /\ IsOut(trace[k], "complete_interview")
              /\ IsIn(trace[j], "interview_complete")

\* C27: Completed is terminal: once isComplete is true it stays true, no
\* submit_answer and no complete_interview is sent any more, and
\* currentQuestionIndex and answers do not change.
C27_CompletedIsTerminal ==
    [][interviewState.isComplete
          => /\ interviewState'.isComplete
             /\ interviewState'.currentQuestionIndex = interviewState.currentQuestionIndex
             /\ interviewState'.answers = interviewState.answers
             /\ Count(trace', {"submit_answer", "complete_interview"})
                  = Count(trace, {"submit_answer", "complete_interview"})]_vars

\* C28: every submit_answer carries the identifier of the question that is
\* current when the message is emitted, also when the recording was started
\* under another question.
C28_SubmitCarriesCurrentQuestion ==
    [][(/\ Len(trace') = Len(trace) + 1
        /\ IsOut(trace'[Len(trace')], "submit_answer"))
          => trace'[Len(trace')].qid = CurrentQuestionId]_vars

\* C29: complete_interview is sent at most once per session.
C29_CompleteAtMostOnce ==
    Count(trace, {"complete_interview"}) <= 1

\* C30: after disconnect() has been called on the simulated transport, it
\* delivers no protocol event (questions_generated, question_audio,
\* answer_analyzed, interview_complete) to a subscribed handler.
C30_NoMockEventAfterDisconnect ==
    mode = "mock"
        => \A k, j \in DOMAIN trace :
              (k < j /\ IsIn(trace[k], "disconnect"))
                  => ~(trace[j].dir = "in" /\ trace[j].type \in ProtocolEvents)

====
